---- MODULE Spec2Model ----
(***************************************************************************)
(* regexdownload: a two-phase concurrent pipeline.  Phase 1 runs one       *)
(* processURL goroutine per seed URL; phase 2 runs one downloadURL         *)
(* goroutine per discovered asset URL.  main coordinates both phases with  *)
(* two WaitGroups and two result channels.                                 *)
(*                                                                         *)
(* Strings are sequences of tokens.  A token is either a special           *)
(* character ("/", "\\", "|", "&", ";", ".", "-", white space, a digit) or *)
(* a word without special characters ("ex", "png", "amp", ...).            *)
(***************************************************************************)
EXTENDS Integers, Sequences, FiniteSets, Bags, TLC

\* ------------------------------------------------------------------ bounds

\* Largest number of seed URLs on the command line.
MaxSeeds == 2

\* Largest clock reading (time.Now) a run observes.
MaxClock == 1

\* Largest number of asset URLs the fetched pages of a run with several
\* seeds hold together (a run with one seed fetches one of Pages).
MaxDownloads == 2

\* Largest number of asset URLs on the page of a run that is followed from
\* the download gate on only.
MaxAssets == 100

\* Largest number of tokens of a string handed to cleanPrefix on its own.
MaxLen == 5

\* ----------------------------------------------------------------- strings

HasPrefix(s, p) ==
    /\ Len(s) >= Len(p)
    /\ SubSeq(s, 1, Len(p)) = p

Digit(n) ==
    CASE n = 0 -> "0" [] n = 1 -> "1" [] n = 2 -> "2" [] n = 3 -> "3"
      [] n = 4 -> "4" [] n = 5 -> "5" [] n = 6 -> "6" [] n = 7 -> "7"
      [] n = 8 -> "8" [] n = 9 -> "9"

\* fmt's %d verb for a non-negative integer.
RECURSIVE Itoa(_)
Itoa(n) ==
    IF n < 10 THEN <<Digit(n)>> ELSE Itoa(n \div 10) \o <<Digit(n % 10)>>

\* fmt's %02d verb: at least two digits, padded with a zero.
Pad2(n) ==
    IF n < 10 THEN <<"0">> \o Itoa(n) ELSE Itoa(n)

\* html.UnescapeString, for the one entity the token alphabet can spell:
\* "&amp;" and the legacy form "&amp" become "&".  One pass, left to right;
\* decoded text is not scanned again.
RECURSIVE UnescapeString(_)
UnescapeString(s) ==
    IF s = <<>> THEN <<>>
    ELSE IF Head(s) = "&" /\ Len(s) >= 2 /\ s[2] = "amp"
         THEN IF Len(s) >= 3 /\ s[3] = ";"
              THEN <<"&">> \o UnescapeString(SubSeq(s, 4, Len(s)))
              ELSE <<"&">> \o UnescapeString(SubSeq(s, 3, Len(s)))
         ELSE <<Head(s)>> \o UnescapeString(Tail(s))

\* strings.NewReplacer("/", "", "\\", "", "|", "").Replace
RECURSIVE slashReplacer(_)
slashReplacer(s) ==
    IF s = <<>> THEN <<>>
    ELSE IF Head(s) \in {"/", "\\", "|"}
         THEN slashReplacer(Tail(s))
         ELSE <<Head(s)>> \o slashReplacer(Tail(s))

\* The characters of the class [ \t ].
HorizontalSpace == {" ", "\t", "nbsp"}

\* The characters strings.TrimSpace removes (unicode.IsSpace).
UnicodeSpace == {" ", "\t", "nbsp", "\n"}

\* reWhitespace.ReplaceAllString(s, " ")
RECURSIVE reWhitespace(_)
reWhitespace(s) ==
    IF s = <<>> THEN <<>>
    ELSE IF Head(s) \in HorizontalSpace
         THEN IF Len(s) >= 2 /\ s[2] \in HorizontalSpace
              THEN reWhitespace(Tail(s))
              ELSE <<" ">> \o reWhitespace(Tail(s))
         ELSE <<Head(s)>> \o reWhitespace(Tail(s))

RECURSIVE TrimLeft(_)
TrimLeft(s) ==
    IF s # <<>> /\ Head(s) \in UnicodeSpace THEN TrimLeft(Tail(s)) ELSE s

RECURSIVE TrimRight(_)
TrimRight(s) ==
    IF s # <<>> /\ s[Len(s)] \in UnicodeSpace
    THEN TrimRight(SubSeq(s, 1, Len(s) - 1))
    ELSE s

TrimSpace(s) == TrimRight(TrimLeft(s))

\* cleanPrefix sanitizes a string for use in a filename.
cleanPrefix(s) ==
    TrimSpace(reWhitespace(slashReplacer(UnescapeString(s))))

\* path.Ext: the suffix beginning at the final dot in the final
\* slash-separated element of the path; empty if there is no dot.
RECURSIVE ExtFrom(_, _)
ExtFrom(s, i) ==
    IF i < 1 \/ s[i] = "/" THEN <<>>
    ELSE IF s[i] = "." THEN SubSeq(s, i, Len(s))
    ELSE ExtFrom(s, i - 1)

Ext(s) == ExtFrom(s, Len(s))

\* ------------------------------------------------------- regular expressions

\* A page is a sequence of elements; an element has a kind and a text.  A
\* compiled pattern matches every element of its kind, in document order;
\* with a capture group the first submatch is the element's text.
Element(kind, val) == [kind |-> kind, val |-> val]

aPng == <<"h", "/", "a", ".", "png">>
bNoExt == <<"h", "/", "b">>

PageEmpty == <<>>
PageFull == <<Element("title", <<"T">>), Element("img", aPng)>>
PageLinks == <<Element("link", bNoExt), Element("img", aPng), Element("link", aPng)>>
PageBlank == <<Element("title", <<>>), Element("img", aPng)>>
PageSlash == <<Element("title", <<" ", "/">>)>>
PageTwo == <<Element("img", aPng), Element("img", bNoExt)>>

\* The pages a run with a single seed may fetch.
Pages == {PageEmpty, PageFull, PageLinks, PageBlank, PageSlash, PageTwo}

\* The pages a run with several seeds may fetch.
ConcurrentPages == {PageFull, PageTwo}

reTitle == <<"<title>", "(", ".*", ")", "<", "/", "title>">>
reTitleNoGroup == <<"<title>">>
reImg == <<"src=", "(", ".*", ")">>
reImgNoGroup == <<"src=">>
reLink == <<"href=", "(", ".*", ")">>
reBad == <<"(">>

Regexps ==
    { [text |-> reTitle, valid |-> TRUE, kind |-> "title", groups |-> 1],
      [text |-> reTitleNoGroup, valid |-> TRUE, kind |-> "title", groups |-> 0],
      [text |-> reImg, valid |-> TRUE, kind |-> "img", groups |-> 1],
      [text |-> reImgNoGroup, valid |-> TRUE, kind |-> "img", groups |-> 0],
      [text |-> reLink, valid |-> TRUE, kind |-> "link", groups |-> 1],
      [text |-> reBad, valid |-> FALSE, kind |-> "", groups |-> 0] }

\* regexp.Compile: the pattern a text denotes; valid is FALSE when Compile
\* returns an error.
Compile(text) == CHOOSE r \in Regexps : r.text = text

\* One match of re on element el: the whole match, then the submatches.
Submatch(re, el) ==
    IF re.groups >= 1 THEN <<<<el.kind>> \o el.val, el.val>>
    ELSE <<<<el.kind>> \o el.val>>

\* re.FindAllSubmatch(content, -1): one match for every element of the
\* pattern's kind, in document order.
FindAllSubmatch(re, content) ==
    LET matched == SelectSeq(content, LAMBDA el : el.kind = re.kind)
    IN  [n \in 1..Len(matched) |-> Submatch(re, matched[n])]

\* re.FindSubmatch(content): the first match, or nil (the empty sequence).
FindSubmatch(re, content) ==
    LET all == FindAllSubmatch(re, content)
    IN  IF all = <<>> THEN <<>> ELSE Head(all)

\* ----------------------------------------------------------- configuration

Key(name, value) == [name |-> name, value |-> value]

prefixKey == <<"p", "r", "e", "f", "i", "x">>
reKey1 == <<"r", "e", "1">>
reKey2 == <<"r", "e", "2">>
reKey3 == <<"r", "e", "3">>
nameKey == <<"n", "a", "m", "e">>

\* The loaded ini file: section name -> the section's keys, in file order.
cfg ==
    [ site |-> <<Key(reKey1, reImg)>>,
      blog |-> <<Key(prefixKey, reTitle), Key(reKey1, reImg), Key(reKey2, reBad),
                 Key(nameKey, reTitle), Key(reKey3, reLink)>>,
      bad  |-> <<Key(prefixKey, reBad), Key(reKey1, reImg)>>,
      nog  |-> <<Key(prefixKey, reTitleNoGroup), Key(reKey1, reImgNoGroup)>> ]

\* section.HasKey(name)
HasKey(section, name) == \E i \in 1..Len(section) : section[i].name = name

\* section.Key(name).String()
KeyString(section, name) ==
    section[CHOOSE i \in 1..Len(section) : section[i].name = name].value

\* ------------------------------------------------------------------- seeds

\* A command-line argument, with what url.Parse makes of it: whether it
\* parses, strings.Split(hostname, "."), and the scheme it starts with.
Arg(name, parses, host, scheme) ==
    [name |-> name, parses |-> parses, host |-> host, scheme |-> scheme]

Seeds ==
    { Arg("unparsable", FALSE, <<"">>, ""),
      Arg("http://localhost/", TRUE, <<"localhost">>, "http"),
      Arg("http:///x", TRUE, <<"">>, "http"),
      Arg("http://x.none.com/", TRUE, <<"x", "none", "com">>, "http"),
      Arg("ftp://x.site.com/", TRUE, <<"x", "site", "com">>, "ftp"),
      Arg("ftp://x.blog.com/", TRUE, <<"x", "blog", "com">>, "ftp"),
      Arg("http://x.site.com/", TRUE, <<"x", "site", "com">>, "http"),
      Arg("https://x.blog.com/", TRUE, <<"x", "blog", "com">>, "https"),
      Arg("http://x.bad.com/", TRUE, <<"x", "bad", "com">>, "http"),
      Arg("http://x.nog.com/", TRUE, <<"x", "nog", "com">>, "http") }

\* The seeds of a run with one seed are drawn from Seeds, those of a run with
\* several seeds from ConcurrentSeeds.
ConcurrentSeeds ==
    { Arg("unparsable", FALSE, <<"">>, ""),
      Arg("http://x.site.com/", TRUE, <<"x", "site", "com">>, "http"),
      Arg("https://x.blog.com/", TRUE, <<"x", "blog", "com">>, "https"),
      Arg("http://x.bad.com/", TRUE, <<"x", "bad", "com">>, "http") }

\* http.StatusOK
StatusOK == 200

\* What the world answers to one processURL call: the GET's fate, the
\* response status and body, the fate of each file operation, the clock.
\* An answer the call never gets to see is left at its default.
ProcessEnv(now) ==
    [get |-> "ok", status |-> StatusOK, page |-> PageEmpty, tmpOK |-> TRUE,
     copyOK |-> TRUE, readOK |-> TRUE, renameOK |-> TRUE, now |-> now]

\* The answers that make a processURL call of a run with a single seed fail.
Failures(e) ==
    { [e EXCEPT !.get = "err"], [e EXCEPT !.status = 201], [e EXCEPT !.status = 404],
      [e EXCEPT !.tmpOK = FALSE], [e EXCEPT !.copyOK = FALSE], [e EXCEPT !.readOK = FALSE] }

\* Those of a run with several seeds.
ConcurrentFailures(e) ==
    { [e EXCEPT !.get = "err"], [e EXCEPT !.copyOK = FALSE] }

\* The clock readings: goroutines run in any order, so any two calls may
\* read the same time or different times.
Times == 0..MaxClock

ProcessEnvs(single) ==
    UNION { LET e == ProcessEnv(now)
            IN  (IF single THEN Failures(e) ELSE ConcurrentFailures(e))
                \cup { [e EXCEPT !.page = p, !.renameOK = r] :
                         p \in (IF single THEN Pages ELSE ConcurrentPages), r \in BOOLEAN }
            : now \in Times }

\* -------------------------------------------------------------- processURL

\* ProcessResult{URL: arg}
NewProcessResult(arg) ==
    [URL |-> arg.name, FinalPrefix |-> <<>>, FoundURLs |-> <<>>, Err |-> "nil",
     OutputMessages |-> <<>>]

AddMessage(res, msg) == [res EXCEPT !.OutputMessages = Append(@, msg)]

\* What one processURL call leaves behind: the result it sends, its
\* temporary file ("none": never created, "exists", "removed", "renamed"),
\* the name of the retained snapshot (empty if none), the number of HTTP
\* requests it issued, resp.StatusCode (0 without a response) and the
\* content it read back (empty if it read none).
Returned(res, tmp, snap, gets) ==
    [res |-> res, tmp |-> tmp, snap |-> snap, gets |-> gets, status |-> 0,
     content |-> <<>>]

\* The same, for a call that got a response and read content.
Saw(r, status, content) == [r EXCEPT !.status = status, !.content = content]

\* res.Err = ...; results <- res; return
Failed(res, err, tmp, gets) ==
    Returned([res EXCEPT !.Err = err], tmp, <<>>, gets)

\* The loop over matches run from the last match to the first.
FirstSubmatchesReversed(matches) ==
    LET withGroup == SelectSeq(matches, LAMBDA match : Len(match) > 1)
    IN  [n \in 1..Len(withGroup) |-> withGroup[Len(withGroup) - n + 1][2]]

\* The FoundURLs one key's matches append: the first submatch of every match
\* that has one, in the order of the matches.
FirstSubmatches(matches) ==
    LET withGroup == SelectSeq(matches, LAMBDA match : Len(match) > 1)
    IN  [n \in 1..Len(withGroup) |-> withGroup[n][2]]

\* The loop over section.Keys() treating an invalid extraction pattern as
\* it treats an invalid prefix pattern: the error is set and the loop ends.
RECURSIVE ExtractURLsFatal(_, _, _)
ExtractURLsFatal(keys, content, res) ==
    IF keys = <<>> THEN res
    ELSE LET key == Head(keys)
             re == Compile(key.value)
         IN  IF ~HasPrefix(key.name, <<"r", "e">>)
             THEN ExtractURLsFatal(Tail(keys), content, res)
             ELSE IF ~re.valid
             THEN [res EXCEPT !.Err = "invalid regex"]
             ELSE ExtractURLsFatal(Tail(keys), content,
                                   [res EXCEPT !.FoundURLs =
                                       @ \o FirstSubmatches(FindAllSubmatch(re, content))])

\* The loop over section.Keys(): keys whose name starts with "re" are
\* compiled; an invalid one adds a warning and is skipped.
RECURSIVE ExtractURLs(_, _, _)
ExtractURLs(keys, content, res) ==
    IF keys = <<>> THEN res
    ELSE LET key == Head(keys)
             re == Compile(key.value)
         IN  IF ~HasPrefix(key.name, <<"r", "e">>)
             THEN ExtractURLs(Tail(keys), content, res)
             ELSE IF ~re.valid
             THEN ExtractURLs(Tail(keys), content,
                              AddMessage(res, <<"Warning: Invalid regex for key">> \o key.name))
             ELSE ExtractURLs(Tail(keys), content,
                              [res EXCEPT !.FoundURLs =
                                  @ \o FirstSubmatches(FindAllSubmatch(re, content))])

\* The prefix pattern applied to the fetched content (the pattern is known
\* to compile).
ApplyPrefixRegex(re, content, res) ==
    LET matches == FindSubmatch(re, content)
    IN  IF Len(matches) >= 2
        THEN AddMessage([res EXCEPT !.FinalPrefix = matches[2]],
                        <<"Prefix extracted from content.">>)
        ELSE AddMessage(res, <<"Prefix regex did not match or had no capture group.">>)

\* fmt.Sprintf("%s-%d.html", sectionName, timestamp)
SnapshotName(sectionName, timestamp) ==
    <<sectionName, "-">> \o Itoa(timestamp) \o <<".", "html">>

\* The end of processURL with the keepTemporary test left out: the
\* temporary file is renamed whatever the flag says.
KeepAlways(res, sectionName, e, keepTemporary) ==
    LET newFileName == SnapshotName(sectionName, e.now)
        clean(r) == [r EXCEPT !.FinalPrefix = cleanPrefix(@)]
    IN  IF ~e.renameOK
        THEN Returned(clean(AddMessage(res, <<"Warning: Failed to keep temporary file">>)),
                      "removed", <<>>, 1)
        ELSE Returned(clean(AddMessage(res, <<"Kept temporary file as">> \o newFileName)),
                      "renamed", newFileName, 1)

\* The end of processURL, from the keepTemporary test on: the temporary file
\* is renamed or removed, the prefix is cleaned, the result is sent.
KeepOrRemove(res, sectionName, e, keepTemporary) ==
    LET newFileName == SnapshotName(sectionName, e.now)
        clean(r) == [r EXCEPT !.FinalPrefix = cleanPrefix(@)]
    IN  IF keepTemporary
        THEN IF ~e.renameOK
             THEN Returned(clean(AddMessage(res, <<"Warning: Failed to keep temporary file">>)),
                           "removed", <<>>, 1)
             ELSE Returned(clean(AddMessage(res, <<"Kept temporary file as">> \o newFileName)),
                           "renamed", newFileName, 1)
        ELSE Returned(clean(res), "removed", <<>>, 1)

\* processURL with the return of the invalid-prefix branch left out: the
\* error is set and the later steps run all the same.
ScanContentNoReturn(res, section, sectionName, hasPrefixRegex, prefixValue, e, keepTemporary) ==
    LET re == Compile(prefixValue)
        res1 == IF hasPrefixRegex /\ ~re.valid
                THEN [res EXCEPT !.Err = "invalid prefix regex"]
                ELSE IF hasPrefixRegex THEN ApplyPrefixRegex(re, e.page, res) ELSE res
        res2 == ExtractURLs(section, e.page, res1)
    IN  KeepOrRemove(res2, sectionName, e, keepTemporary)

\* processURL after a successful read of the temporary file.
ScanContent(res, section, sectionName, hasPrefixRegex, prefixValue, e, keepTemporary) ==
    LET re == Compile(prefixValue)
    IN  IF hasPrefixRegex /\ ~re.valid
        THEN Failed(res, "invalid prefix regex", "exists", 1)
        ELSE LET res1 == IF hasPrefixRegex THEN ApplyPrefixRegex(re, e.page, res) ELSE res
                 res2 == ExtractURLs(section, e.page, res1)
             IN  KeepOrRemove(res2, sectionName, e, keepTemporary)

\* processURL from http.Get on.
FetchPage(res, section, sectionName, hasPrefixRegex, prefixValue, e, keepTemporary) ==
    IF e.get = "err" THEN Failed(res, "failed to download", "none", 1)
    ELSE IF e.status # StatusOK
    THEN Saw(Failed(res, "download failed with status", "none", 1), e.status, <<>>)
    ELSE IF ~e.tmpOK
    THEN Saw(Failed(res, "failed to create temp file", "none", 1), e.status, <<>>)
    ELSE IF ~e.copyOK
    THEN Saw(Failed(res, "failed to write to temp file", "removed", 1), e.status, <<>>)
    ELSE IF ~e.readOK
    THEN Saw(Failed(res, "failed to read temp file", "removed", 1), e.status, <<>>)
    ELSE Saw(ScanContent(res, section, sectionName, hasPrefixRegex, prefixValue, e,
                         keepTemporary),
             e.status, e.page)

\* The prefix before any content is seen: the prefix key's text, or
\* fmt.Sprintf("%s-%d", sectionName, time.Now().Unix()).
PrefixValue(section, sectionName, now) ==
    IF HasKey(section, prefixKey)
    THEN KeyString(section, prefixKey)
    ELSE <<sectionName, "-">> \o Itoa(now)

\* processURL with the hostname test moved behind http.Get: the request is
\* issued before the number of labels is looked at.
processURLGetFirst(arg, e, keepTemporary) ==
    LET res == NewProcessResult(arg)
        parts == arg.host
    IN  IF ~arg.parses THEN Failed(res, "could not parse as a URL", "none", 0)
        ELSE IF Len(parts) < 2 THEN Failed(res, "hostname is not a valid domain", "none", 1)
        ELSE LET sectionName == parts[Len(parts) - 1]
                 res1 == AddMessage(res, <<"Processing section", sectionName>>)
             IN  IF sectionName \notin DOMAIN cfg
                 THEN Failed(res1, "section not found in config", "none", 0)
                 ELSE LET section == cfg[sectionName]
                          hasPrefixRegex == HasKey(section, prefixKey)
                          prefixValue == PrefixValue(section, sectionName, e.now)
                          res2 == [res1 EXCEPT !.FinalPrefix = prefixValue]
                      IN  IF arg.scheme \notin {"http", "https"}
                          THEN Returned([AddMessage(res2, <<"Argument is not a downloadable HTTP/S URL.">>)
                                            EXCEPT !.FinalPrefix = cleanPrefix(@)],
                                        "none", <<>>, 0)
                          ELSE FetchPage(res2, section, sectionName, hasPrefixRegex,
                                         prefixValue, e, keepTemporary)

\* processURL is the worker that parses the initial page.
processURL(arg, e, keepTemporary) ==
    LET res == NewProcessResult(arg)
        parts == arg.host
    IN  IF ~arg.parses THEN Failed(res, "could not parse as a URL", "none", 0)
        ELSE IF Len(parts) < 2 THEN Failed(res, "hostname is not a valid domain", "none", 0)
        ELSE LET sectionName == parts[Len(parts) - 1]
                 res1 == AddMessage(res, <<"Processing section", sectionName>>)
             IN  IF sectionName \notin DOMAIN cfg
                 THEN Failed(res1, "section not found in config", "none", 0)
                 ELSE LET section == cfg[sectionName]
                          hasPrefixRegex == HasKey(section, prefixKey)
                          prefixValue == PrefixValue(section, sectionName, e.now)
                          res2 == [res1 EXCEPT !.FinalPrefix = prefixValue]
                      IN  IF arg.scheme \notin {"http", "https"}
                          THEN Returned([AddMessage(res2, <<"Argument is not a downloadable HTTP/S URL.">>)
                                            EXCEPT !.FinalPrefix = cleanPrefix(@)],
                                        "none", <<>>, 0)
                          ELSE FetchPage(res2, section, sectionName, hasPrefixRegex,
                                         prefixValue, e, keepTemporary)

\* -------------------------------------------------------------- downloadURL

\* What the world answers to one downloadURL call; an answer the call
\* never gets to see is left at its default.
DownloadEnv == [get |-> "ok", status |-> StatusOK, createOK |-> TRUE, copyOK |-> TRUE]

\* The answers a download of a run with a single seed may get.
DownloadEnvs ==
    { DownloadEnv, [DownloadEnv EXCEPT !.get = "err"], [DownloadEnv EXCEPT !.status = 201],
      [DownloadEnv EXCEPT !.status = 404], [DownloadEnv EXCEPT !.createOK = FALSE],
      [DownloadEnv EXCEPT !.copyOK = FALSE] }

\* The answers a download of a run with several seeds may get.
ConcurrentDownloadEnvs ==
    { DownloadEnv, [DownloadEnv EXCEPT !.get = "err"], [DownloadEnv EXCEPT !.copyOK = FALSE] }

\* DownloadResult{URL: url, Filepath: filepath}
NewDownloadResult(url, filepath) == [URL |-> url, Filepath |-> filepath, Err |-> "nil"]

\* downloadURL with os.Create moved before http.Get: the target file is made
\* (or truncated) before the response is known.
downloadURLCreateFirst(url, filepath, e) ==
    LET res == NewDownloadResult(url, filepath)
    IN  IF ~e.createOK
        THEN [res |-> [res EXCEPT !.Err = "create failed"], created |-> FALSE, status |-> 0]
        ELSE IF e.get = "err"
        THEN [res |-> [res EXCEPT !.Err = "get failed"], created |-> TRUE, status |-> 0]
        ELSE IF e.status # StatusOK
        THEN [res |-> [res EXCEPT !.Err = "bad status"], created |-> TRUE,
              status |-> e.status]
        ELSE IF ~e.copyOK
        THEN [res |-> [res EXCEPT !.Err = "copy failed"], created |-> TRUE,
              status |-> e.status]
        ELSE [res |-> res, created |-> TRUE, status |-> e.status]

\* downloadURL: the result it sends, whether os.Create made (or truncated)
\* the target file, and resp.StatusCode (0 when http.Get returned an error
\* and no response).
downloadURL(url, filepath, e) ==
    LET res == NewDownloadResult(url, filepath)
    IN  IF e.get = "err"
        THEN [res |-> [res EXCEPT !.Err = "get failed"], created |-> FALSE, status |-> 0]
        ELSE IF e.status # StatusOK
        THEN [res |-> [res EXCEPT !.Err = "bad status"], created |-> FALSE,
              status |-> e.status]
        ELSE IF ~e.createOK
        THEN [res |-> [res EXCEPT !.Err = "create failed"], created |-> FALSE,
              status |-> e.status]
        ELSE IF ~e.copyOK
        THEN [res |-> [res EXCEPT !.Err = "copy failed"], created |-> TRUE,
              status |-> e.status]
        ELSE [res |-> res, created |-> TRUE, status |-> e.status]

\* ------------------------------------------------------------------- state

VARIABLES
    args,            \* flag.Args(): the seed URLs
    keepTemporary,   \* the -k flag
    verbose,         \* the -v flag
    mainpc,          \* where main is
    k,               \* main's index into args, then into processed
    j,               \* main's index into res.FoundURLs
    ppc,             \* per seed: where its processURL goroutine is
    pres,            \* per seed: the ProcessResult its goroutine holds
    parseResults,    \* the buffered channel of ProcessResult
    parseClosed,     \* close(parseResults) has run
    parseWg,         \* parseWg's counter
    processed,       \* main's slice of received ProcessResults
    dl,              \* the downloadURL goroutines, in launch order
    downloadWg,      \* downloadWg's counter
    totalDownloads,  \* main's count of launched downloads
    downloadClosed,  \* close(downloadResults) has run
    closerpc,        \* where the closer goroutine is
    received,        \* main's loop counter i over downloadResults
    stdout,          \* the bag of lines printed to standard output
    stderr,          \* the bag of lines printed to standard error
    exitCode,        \* the process's exit status, -1 while it runs
    tmpFiles,        \* seeds whose temporary file exists on disk
    snapshots,       \* names of the retained snapshot files on disk
    files,           \* target paths created on disk
    httpGets,        \* per seed: HTTP requests its processURL issued
    httpStatus,      \* per seed: resp.StatusCode of its processURL (0: no response)
    content,         \* per seed: the bytes its processURL read back
    panicked         \* a goroutine sent on a closed channel

vars ==
    <<args, keepTemporary, verbose, mainpc, k, j, ppc, pres, parseResults,
      parseClosed, parseWg, processed, dl, downloadWg, totalDownloads,
      downloadClosed, closerpc, received, stdout, stderr, exitCode, tmpFiles,
      snapshots, files, httpGets, httpStatus, content, panicked>>

inputVars == <<args, keepTemporary, verbose>>
phase1Vars ==
    <<ppc, pres, parseResults, parseClosed, parseWg, tmpFiles, snapshots, httpGets,
      httpStatus, content>>
phase2Vars == <<dl, downloadWg, totalDownloads, downloadClosed, closerpc, received, files>>
outputVars == <<stdout, stderr, exitCode>>

NoResult == [URL |-> "", FinalPrefix |-> <<>>, FoundURLs |-> <<>>, Err |-> "nil",
             OutputMessages |-> <<>>]

ArgLists ==
    {<<>>} \cup [1..1 -> Seeds] \cup UNION { [1..n -> ConcurrentSeeds] : n \in 2..MaxSeeds }

\* The answers the downloads of this run may get.
DownloadEnvsOfRun == IF Len(args) = 1 THEN DownloadEnvs ELSE ConcurrentDownloadEnvs

\* The asset URLs found so far by the processURL calls of this run.
RECURSIVE FoundSoFar(_)
FoundSoFar(i) ==
    IF i = 0 THEN 0 ELSE Len(pres[i].FoundURLs) + FoundSoFar(i - 1)

Init ==
    /\ args \in ArgLists
    /\ keepTemporary \in BOOLEAN
    /\ verbose \in BOOLEAN
    /\ mainpc = "start"
    /\ k = 0
    /\ j = 0
    /\ ppc = [i \in DOMAIN args |-> "idle"]
    /\ pres = [i \in DOMAIN args |-> NoResult]
    /\ parseResults = <<>>
    /\ parseClosed = FALSE
    /\ parseWg = 0
    /\ processed = <<>>
    /\ dl = <<>>
    /\ downloadWg = 0
    /\ totalDownloads = 0
    /\ downloadClosed = FALSE
    /\ closerpc = "idle"
    /\ received = 0
    /\ stdout = EmptyBag
    /\ stderr = EmptyBag
    /\ exitCode = -1
    /\ tmpFiles = {}
    /\ snapshots = {}
    /\ files = {}
    /\ httpGets = [i \in DOMAIN args |-> 0]
    /\ httpStatus = [i \in DOMAIN args |-> 0]
    /\ content = [i \in DOMAIN args |-> <<>>]
    /\ panicked = FALSE

\* The process runs until main returns or calls os.Exit.
Running == mainpc # "exited"

\* A printed line: what it reports, and the URL and path it names.
Line(kind, url, path) == [kind |-> kind, url |-> url, path |-> path]

\* fmt.Println and fmt.Fprintf: one more line on a stream.  A stream is the
\* bag of its lines; the order of the lines is not kept.
Println(stream, line) == stream (+) SetToBag({line})

\* -------------------------------------------------------------------- main

\* main, from flag.Args() to make(chan ProcessResult, len(args)).
MainStart ==
    /\ mainpc = "start"
    /\ IF Len(args) = 0
       THEN /\ stderr' = Println(stderr, Line("Error: No URL arguments provided.", "", <<>>))
            /\ exitCode' = 1
            /\ mainpc' = "exited"
            /\ k' = k
       ELSE /\ mainpc' = "launch"
            /\ k' = 1
            /\ UNCHANGED <<stderr, exitCode>>
    /\ UNCHANGED <<inputVars, phase1Vars, phase2Vars, j, processed, stdout, panicked>>

\* parseWg.Add(1); go processURL(arg, ...)
MainLaunch ==
    /\ mainpc = "launch"
    /\ parseWg' = parseWg + 1
    /\ ppc' = [ppc EXCEPT ![k] = "run"]
    /\ k' = k + 1
    /\ mainpc' = IF k = Len(args) THEN "wait" ELSE "launch"
    /\ UNCHANGED <<inputVars, pres, parseResults, parseClosed, tmpFiles, snapshots,
                   httpGets, httpStatus, content, phase2Vars, outputVars, j, processed,
                   panicked>>

\* parseWg.Wait() left out: main goes on while processURL goroutines run.
MainWaitNoBarrier ==
    /\ mainpc = "wait"
    /\ mainpc' = "close"
    /\ UNCHANGED <<inputVars, phase1Vars, phase2Vars, outputVars, k, j, processed, panicked>>

\* parseWg.Wait()
MainWait ==
    /\ mainpc = "wait"
    /\ parseWg = 0
    /\ mainpc' = "close"
    /\ UNCHANGED <<inputVars, phase1Vars, phase2Vars, outputVars, k, j, processed, panicked>>

\* close(parseResults)
MainClose ==
    /\ mainpc = "close"
    /\ parseClosed' = TRUE
    /\ mainpc' = "drain"
    /\ UNCHANGED <<inputVars, ppc, pres, parseResults, parseWg, tmpFiles, snapshots,
                   httpGets, httpStatus, content, phase2Vars, outputVars, k, j, processed,
                   panicked>>

\* for res := range parseResults { processed = append(processed, res) }
\* One iteration; the loop ends when the channel is closed and empty.
MainDrain ==
    /\ mainpc = "drain"
    /\ IF parseResults # <<>>
       THEN /\ processed' = Append(processed, Head(parseResults))
            /\ parseResults' = Tail(parseResults)
            /\ UNCHANGED <<mainpc, k, stdout>>
       ELSE /\ parseClosed
            /\ mainpc' = "gate"
            /\ k' = 1
            /\ stdout' = IF verbose
                         THEN Println(stdout, Line("--- Starting Download Phase ---", "", <<>>))
                         ELSE stdout
            /\ UNCHANGED <<processed, parseResults>>
    /\ UNCHANGED <<inputVars, ppc, pres, parseClosed, parseWg, tmpFiles, snapshots,
                   httpGets, httpStatus, content, phase2Vars, stderr, exitCode, j,
                   panicked>>

\* The lines the verbose flag adds for one ProcessResult.
RECURSIVE MessageLines(_)
MessageLines(msgs) ==
    IF msgs = <<>> THEN EmptyBag
    ELSE SetToBag({Line("message", "", Head(msgs))}) (+) MessageLines(Tail(msgs))

\* The loop over processed with a break in place of the continue: the first
\* failed outcome ends the loop.
MainGateAbort ==
    /\ mainpc = "gate"
    /\ k <= Len(processed)
    /\ LET res == processed[k]
       IN  IF res.Err # "nil"
           THEN /\ stderr' = Println(stderr, Line("Error processing this URL", res.URL, <<>>))
                /\ k' = Len(processed) + 1
                /\ UNCHANGED <<j, mainpc>>
           ELSE IF Len(res.FoundURLs) = 0
           THEN /\ k' = k + 1
                /\ UNCHANGED <<j, mainpc, stderr>>
           ELSE /\ j' = 1
                /\ mainpc' = "spawn"
                /\ UNCHANGED <<k, stderr>>
    /\ UNCHANGED <<inputVars, phase1Vars, phase2Vars, stdout, exitCode, processed, panicked>>

\* The head of the loop over processed: the outcome is reported, and it is
\* skipped when it carries an error or no URL.
MainGate ==
    /\ mainpc = "gate"
    /\ k <= Len(processed)
    /\ LET res == processed[k]
           out == IF verbose
                  THEN Println(stdout (+) MessageLines(res.OutputMessages),
                               Line("--- Queuing downloads for", res.URL, <<>>))
                  ELSE stdout
       IN  IF res.Err # "nil"
           THEN /\ stderr' = Println(stderr, Line("Error processing this URL", res.URL, <<>>))
                /\ stdout' = out
                /\ k' = k + 1
                /\ UNCHANGED <<j, mainpc>>
           ELSE IF Len(res.FoundURLs) = 0
           THEN /\ stdout' = IF verbose
                             THEN Println(out, Line("No URLs found to download.", "", <<>>))
                             ELSE out
                /\ k' = k + 1
                /\ UNCHANGED <<j, mainpc, stderr>>
           ELSE /\ stdout' = out
                /\ j' = 1
                /\ mainpc' = "spawn"
                /\ UNCHANGED <<k, stderr>>
    /\ UNCHANGED <<inputVars, phase1Vars, phase2Vars, exitCode, processed, panicked>>

\* The file name with the verb %d in place of %02d: the index is not padded.
FileNameNoPad(prefix, fileIndex, urlToDownload) ==
    LET extension == IF Ext(urlToDownload) = <<>> THEN <<".", "unknown">>
                     ELSE Ext(urlToDownload)
    IN  prefix \o <<"-">> \o Itoa(fileIndex) \o extension

\* fmt.Sprintf("%s-%02d%s", res.FinalPrefix, fileIndex, extension)
FileName(prefix, fileIndex, urlToDownload) ==
    LET extension == IF Ext(urlToDownload) = <<>> THEN <<".", "unknown">>
                     ELSE Ext(urlToDownload)
    IN  prefix \o <<"-">> \o Pad2(fileIndex) \o extension

\* A downloadURL goroutine: its arguments, where it is, the result it holds,
\* the status of the response it holds (0: none) and whether its os.Create
\* made or truncated the target file; owner and pos name the ProcessResult
\* and the position in its FoundURLs the download was launched for.
Downloader(url, filepath, owner, pos) ==
    [url |-> url, filepath |-> filepath, pc |-> "run",
     res |-> NewDownloadResult(url, filepath), status |-> 0, created |-> FALSE,
     owner |-> owner, pos |-> pos]

\* One iteration of the loop over res.FoundURLs:
\* downloadWg.Add(1); totalDownloads++; go downloadURL(...)
MainSpawn ==
    /\ mainpc = "spawn"
    /\ LET res == processed[k]
           urlToDownload == res.FoundURLs[j]
           fileName == FileName(res.FinalPrefix, j, urlToDownload)
       IN  /\ dl' = Append(dl, Downloader(urlToDownload, fileName, k, j))
           /\ downloadWg' = downloadWg + 1
           /\ totalDownloads' = totalDownloads + 1
           /\ IF j = Len(res.FoundURLs)
              THEN /\ k' = k + 1
                   /\ mainpc' = "gate"
                   /\ j' = j
              ELSE /\ j' = j + 1
                   /\ UNCHANGED <<k, mainpc>>
    /\ UNCHANGED <<inputVars, phase1Vars, downloadClosed, closerpc, received, files,
                   outputVars, processed, panicked>>

\* go func() { downloadWg.Wait(); close(downloadResults) }()
MainGoCloser ==
    /\ mainpc = "gate"
    /\ k > Len(processed)
    /\ closerpc' = "wait"
    /\ mainpc' = "recv"
    /\ UNCHANGED <<inputVars, phase1Vars, dl, downloadWg, totalDownloads, downloadClosed,
                   received, files, outputVars, k, j, processed, panicked>>

\* One iteration of the loop over downloadResults: the receive meets the
\* send of a downloader (the channel is unbuffered), and the outcome is
\* printed.
MainRecv(d) ==
    /\ mainpc = "recv"
    /\ received < totalDownloads
    /\ dl[d].pc = "send"
    /\ LET res == dl[d].res
       IN  IF res.Err # "nil"
           THEN /\ stderr' = Println(stderr, Line("Error downloading", res.URL, res.Filepath))
                /\ UNCHANGED stdout
           ELSE /\ stdout' = Println(stdout, Line("downloaded", res.URL, res.Filepath))
                /\ UNCHANGED stderr
    /\ dl' = [dl EXCEPT ![d].pc = "return", ![d].res = NewDownloadResult("", <<>>),
                        ![d].status = 0]
    /\ received' = received + 1
    /\ UNCHANGED <<inputVars, phase1Vars, downloadWg, totalDownloads, downloadClosed,
                   closerpc, files, exitCode, mainpc, k, j, processed, panicked>>

\* The receive loop with its bound one short: main returns with an outcome
\* still to come.
MainReturnEarly ==
    /\ mainpc = "recv"
    /\ received + 1 >= totalDownloads
    /\ stdout' = IF verbose
                 THEN Println(stdout, Line("--- Download Phase Complete ---", "", <<>>))
                 ELSE stdout
    /\ exitCode' = 0
    /\ mainpc' = "exited"
    /\ UNCHANGED <<inputVars, phase1Vars, phase2Vars, stderr, k, j, processed, panicked>>

\* The end of main: the process exits with status 0, and with it every
\* goroutine still running.
MainReturn ==
    /\ mainpc = "recv"
    /\ received = totalDownloads
    /\ stdout' = IF verbose
                 THEN Println(stdout, Line("--- Download Phase Complete ---", "", <<>>))
                 ELSE stdout
    /\ exitCode' = 0
    /\ mainpc' = "exited"
    /\ UNCHANGED <<inputVars, phase1Vars, phase2Vars, stderr, k, j, processed, panicked>>

\* ------------------------------------------------------- processURL goroutine

\* The body of processURL up to its send: the temporary file and the
\* snapshot are on disk as the call leaves them, the result is in hand.
ProcRun(i) ==
    /\ Running
    /\ ppc[i] = "run"
    /\ \E e \in ProcessEnvs(Len(args) = 1) :
          LET r == processURL(args[i], e, keepTemporary)
          IN  /\ Len(args) > 1 =>
                    FoundSoFar(Len(args)) + Len(r.res.FoundURLs) <= MaxDownloads
              /\ pres' = [pres EXCEPT ![i] = r.res]
              /\ tmpFiles' = IF r.tmp = "exists" THEN tmpFiles \cup {i} ELSE tmpFiles
              /\ snapshots' = IF r.snap # <<>> THEN snapshots \cup {r.snap} ELSE snapshots
              /\ httpGets' = [httpGets EXCEPT ![i] = r.gets]
              /\ httpStatus' = [httpStatus EXCEPT ![i] = r.status]
              /\ content' = [content EXCEPT ![i] = r.content]
    /\ ppc' = [ppc EXCEPT ![i] = "send"]
    /\ UNCHANGED <<inputVars, parseResults, parseClosed, parseWg, phase2Vars, outputVars,
                   mainpc, k, j, processed, panicked>>

\* A failure path that returns without its send: the invalid-prefix outcome
\* never reaches the channel.
ProcSendSkipsFailure(i) ==
    /\ Running
    /\ ppc[i] = "send"
    /\ Len(parseResults) < Len(args)
    /\ parseResults' = IF pres[i].Err = "invalid prefix regex" THEN parseResults
                       ELSE Append(parseResults, pres[i])
    /\ ppc' = [ppc EXCEPT ![i] = "return"]
    /\ UNCHANGED <<inputVars, pres, parseClosed, parseWg, tmpFiles, snapshots, httpGets,
                   httpStatus, content, phase2Vars, outputVars, mainpc, k, j, processed,
                   panicked>>

\* results <- res, on a channel of capacity len(args); a send on a closed
\* channel panics.
ProcSend(i) ==
    /\ Running
    /\ ppc[i] = "send"
    /\ IF parseClosed
       THEN /\ panicked' = TRUE
            /\ UNCHANGED parseResults
       ELSE /\ Len(parseResults) < Len(args)
            /\ parseResults' = Append(parseResults, pres[i])
            /\ UNCHANGED panicked
    /\ ppc' = [ppc EXCEPT ![i] = "return"]
    /\ UNCHANGED <<inputVars, pres, parseClosed, parseWg, tmpFiles, snapshots, httpGets,
                   httpStatus, content, phase2Vars, outputVars, mainpc, k, j, processed>>

\* defer wg.Done()
ProcDone(i) ==
    /\ Running
    /\ ppc[i] = "return"
    /\ parseWg' = parseWg - 1
    /\ ppc' = [ppc EXCEPT ![i] = "done"]
    /\ UNCHANGED <<inputVars, pres, parseResults, parseClosed, tmpFiles, snapshots,
                   httpGets, httpStatus, content, phase2Vars, outputVars, mainpc, k, j,
                   processed, panicked>>

\* ------------------------------------------------------ downloadURL goroutine

\* downloadURL returning without a send when http.Get fails.
DownloadRunNoSend(d) ==
    /\ Running
    /\ dl[d].pc = "run"
    /\ \E e \in DownloadEnvsOfRun :
          LET r == downloadURL(dl[d].url, dl[d].filepath, e)
          IN  /\ dl' = [dl EXCEPT ![d].pc = IF e.get = "err" THEN "return" ELSE "send",
                                  ![d].res = r.res, ![d].status = r.status,
                                  ![d].created = r.created]
              /\ files' = IF r.created THEN files \cup {dl[d].filepath} ELSE files
    /\ UNCHANGED <<inputVars, phase1Vars, downloadWg, totalDownloads, downloadClosed,
                   closerpc, received, outputVars, mainpc, k, j, processed, panicked>>

\* The body of downloadURL up to its send.
DownloadRun(d) ==
    /\ Running
    /\ dl[d].pc = "run"
    /\ \E e \in DownloadEnvsOfRun :
          LET r == downloadURL(dl[d].url, dl[d].filepath, e)
          IN  /\ dl' = [dl EXCEPT ![d].pc = "send", ![d].res = r.res,
                                  ![d].status = r.status, ![d].created = r.created]
              /\ files' = IF r.created THEN files \cup {dl[d].filepath} ELSE files
    /\ UNCHANGED <<inputVars, phase1Vars, downloadWg, totalDownloads, downloadClosed,
                   closerpc, received, outputVars, mainpc, k, j, processed, panicked>>

\* defer wg.Done(), after the send has met main's receive.
DownloadDone(d) ==
    /\ Running
    /\ dl[d].pc = "return"
    /\ downloadWg' = downloadWg - 1
    /\ dl' = [dl EXCEPT ![d].pc = "done"]
    /\ UNCHANGED <<inputVars, phase1Vars, totalDownloads, downloadClosed, closerpc,
                   received, files, outputVars, mainpc, k, j, processed, panicked>>

\* ------------------------------------------------------------------- closer

\* The closer goroutine with downloadWg.Wait() left out.
CloserWaitNoBarrier ==
    /\ Running
    /\ closerpc = "wait"
    /\ closerpc' = "close"
    /\ UNCHANGED <<inputVars, phase1Vars, dl, downloadWg, totalDownloads, downloadClosed,
                   received, files, outputVars, mainpc, k, j, processed, panicked>>

\* downloadWg.Wait()
CloserWait ==
    /\ Running
    /\ closerpc = "wait"
    /\ downloadWg = 0
    /\ closerpc' = "close"
    /\ UNCHANGED <<inputVars, phase1Vars, dl, downloadWg, totalDownloads, downloadClosed,
                   received, files, outputVars, mainpc, k, j, processed, panicked>>

\* close(downloadResults)
CloserClose ==
    /\ Running
    /\ closerpc = "close"
    /\ downloadClosed' = TRUE
    /\ closerpc' = "done"
    /\ UNCHANGED <<inputVars, phase1Vars, dl, downloadWg, totalDownloads, received, files,
                   outputVars, mainpc, k, j, processed, panicked>>

\* ------------------------------------------------------------ specification

Next ==
    \/ MainStart
    \/ MainLaunch
    \/ MainWait
    \/ MainClose
    \/ MainDrain
    \/ MainGate
    \/ MainSpawn
    \/ MainGoCloser
    \/ \E d \in DOMAIN dl : MainRecv(d)
    \/ MainReturn
    \/ \E i \in DOMAIN args : ProcRun(i)
    \/ \E i \in DOMAIN args : ProcSend(i)
    \/ \E i \in DOMAIN args : ProcDone(i)
    \/ \E d \in DOMAIN dl : DownloadRun(d)
    \/ \E d \in DOMAIN dl : DownloadDone(d)
    \/ CloserWait
    \/ CloserClose

Spec == Init /\ [][Next]_vars

\* A page with MaxAssets images, with and without an extension in turn.
LongPage ==
    [m \in 1..MaxAssets |-> Element("img", IF m % 2 = 1 THEN aPng ELSE bNoExt)]

\* The seeds of the runs followed from the download gate on.
SpawnSeeds ==
    { Arg("http://x.site.com/", TRUE, <<"x", "site", "com">>, "http"),
      Arg("https://x.blog.com/", TRUE, <<"x", "blog", "com">>, "https") }

\* main at the head of its loop over processed, in a run of one seed whose
\* page was LongPage: phase 1 is over, its one outcome is collected.
SpawnInit ==
    /\ args \in [1..1 -> SpawnSeeds]
    /\ keepTemporary \in BOOLEAN
    /\ verbose \in BOOLEAN
    /\ \E now \in Times :
          LET r == processURL(args[1], [ProcessEnv(now) EXCEPT !.page = LongPage],
                              keepTemporary)
          IN  /\ pres = <<r.res>>
              /\ processed = <<r.res>>
              /\ snapshots = IF r.snap # <<>> THEN {r.snap} ELSE {}
              /\ httpGets = <<r.gets>>
              /\ httpStatus = <<r.status>>
              /\ content = <<r.content>>
    /\ mainpc = "gate"
    /\ k = 1
    /\ j = 0
    /\ ppc = <<"done">>
    /\ parseResults = <<>>
    /\ parseClosed = TRUE
    /\ parseWg = 0
    /\ dl = <<>>
    /\ downloadWg = 0
    /\ totalDownloads = 0
    /\ downloadClosed = FALSE
    /\ closerpc = "idle"
    /\ received = 0
    /\ stdout = IF verbose
                THEN Println(EmptyBag, Line("--- Starting Download Phase ---", "", <<>>))
                ELSE EmptyBag
    /\ stderr = EmptyBag
    /\ exitCode = -1
    /\ tmpFiles = {}
    /\ files = {}
    /\ panicked = FALSE

\* The loop over processed and res.FoundURLs, up to the last launch.
SpawnNext ==
    \/ MainGate
    \/ MainSpawn

SpawnSpec == SpawnInit /\ [][SpawnNext]_vars

\* The tokens of the strings handed to cleanPrefix on its own, and the
\* strings.
Alphabet == {"&", "amp", ";", "/", " ", "a"}

Strings == UNION { [1..n -> Alphabet] : n \in 0..MaxLen }

\* A ProcessResult whose FinalPrefix is any of Strings, before line 202.
CleanInit ==
    /\ args = <<Arg("http://x.site.com/", TRUE, <<"x", "site", "com">>, "http")>>
    /\ keepTemporary = FALSE
    /\ verbose = FALSE
    /\ \E s \in Strings : pres = <<[NewProcessResult(args[1]) EXCEPT !.FinalPrefix = s]>>
    /\ mainpc = "start"
    /\ k = 0
    /\ j = 0
    /\ ppc = <<"run">>
    /\ parseResults = <<>>
    /\ parseClosed = FALSE
    /\ parseWg = 1
    /\ processed = <<>>
    /\ dl = <<>>
    /\ downloadWg = 0
    /\ totalDownloads = 0
    /\ downloadClosed = FALSE
    /\ closerpc = "idle"
    /\ received = 0
    /\ stdout = EmptyBag
    /\ stderr = EmptyBag
    /\ exitCode = -1
    /\ tmpFiles = {}
    /\ snapshots = {}
    /\ files = {}
    /\ httpGets = <<0>>
    /\ httpStatus = <<0>>
    /\ content = <<<<>>>>
    /\ panicked = FALSE

\* res.FinalPrefix = cleanPrefix(res.FinalPrefix), applied to a result and
\* once more to what it gave; processed keeps the results, k counts them.
Clean ==
    /\ k < 2
    /\ pres' = [pres EXCEPT ![1].FinalPrefix = cleanPrefix(@)]
    /\ processed' = Append(processed, pres'[1])
    /\ k' = k + 1
    /\ UNCHANGED <<inputVars, ppc, parseResults, parseClosed, parseWg, tmpFiles, snapshots,
                   httpGets, httpStatus, content, phase2Vars, outputVars, mainpc, j,
                   panicked>>

CleanNext == Clean

CleanSpec == CleanInit /\ [][CleanNext]_vars

\* The Go scheduler lets no runnable goroutine wait forever, and every HTTP
\* request and file operation returns: a step that can be taken is taken.
FairSpec == Spec /\ WF_vars(Next)

\* ------------------------------------------------------------------ claims

Range(f) == { f[x] : x \in DOMAIN f }

\* A processURL goroutine has completed: it has sent its outcome and run
\* its deferred wg.Done.
Completed(i) == ppc[i] = "done"

\* The outcomes main has collected that carry a failure.
FailedOutcomes == { n \in DOMAIN processed : processed[n].Err # "nil" }

\* The downloadURL goroutines launched for position pos of outcome n.
LaunchedFor(n, pos) == { d \in DOMAIN dl : dl[d].owner = n /\ dl[d].pos = pos }

\* The goroutines launched with a given URL and target path, and the lines
\* that report such a download.
LaunchCount(url, path) ==
    Cardinality({ d \in DOMAIN dl : dl[d].url = url /\ dl[d].filepath = path })

ReportCount(url, path) ==
    CopiesIn(Line("downloaded", url, path), stdout)
      + CopiesIn(Line("Error downloading", url, path), stderr)

\* main has returned after both phases.
Returned0 == mainpc = "exited" /\ exitCode = 0

\* C1: phase barrier.  Whenever a downloadURL goroutine has been launched,
\* every processURL goroutine of the run has completed, with or without an
\* error.
C1_PhaseBarrier ==
    dl # <<>> => \A i \in DOMAIN args : Completed(i)

\* C1 witness: a download is launched in a run of two seeds, one of which
\* failed.
C1_Witness ==
    /\ Len(args) = 2
    /\ dl # <<>>
    /\ FailedOutcomes # {}

\* C2: isolation.  When main returns, every seed has been processed and its
\* outcome collected, and every asset URL of every outcome without failure
\* has exactly one downloadURL goroutine, launched with that URL, and as many
\* report lines as there are downloads of that URL to that path; failed
\* outcomes of other seeds change nothing of this.
C2_Isolation ==
    Returned0 =>
        /\ \A i \in DOMAIN args : Completed(i)
        /\ Len(processed) = Len(args)
        /\ \A n \in DOMAIN processed :
              processed[n].Err = "nil" =>
                  \A pos \in DOMAIN processed[n].FoundURLs :
                      /\ Cardinality(LaunchedFor(n, pos)) = 1
                      /\ \A d \in LaunchedFor(n, pos) :
                            /\ dl[d].url = processed[n].FoundURLs[pos]
                            /\ ReportCount(dl[d].url, dl[d].filepath)
                                 = LaunchCount(dl[d].url, dl[d].filepath)
                            /\ ReportCount(dl[d].url, dl[d].filepath) >= 1

\* C2 witness: main has returned from a run in which the first outcome
\* collected failed and a later one had its asset downloaded and reported.
C2_Witness ==
    /\ Returned0
    /\ Len(processed) = 2
    /\ processed[1].Err # "nil"
    /\ processed[2].Err = "nil"
    /\ processed[2].FoundURLs # <<>>
    /\ \E d \in DOMAIN dl : dl[d].owner = 2 /\ ReportCount(dl[d].url, dl[d].filepath) = 1

\* A downloadURL goroutine has finished its work: it has run to its last
\* statement, the send of its outcome, and main has received it.
Delivered(d) == dl[d].pc \in {"return", "done"}

\* The run is complete: main has reached its end, every processURL has
\* completed, every downloadURL has delivered its outcome (none is blocked on
\* its send) and main has received them all.
RunComplete ==
    /\ mainpc = "exited"
    /\ Len(args) > 0 =>
          /\ exitCode = 0
          /\ \A i \in DOMAIN args : Completed(i)
          /\ \A d \in DOMAIN dl : Delivered(d)
          /\ received = Len(dl)
          /\ received = totalDownloads

\* C3: termination without deadlock.  Under fair scheduling every run
\* eventually is complete.
C3_Termination == <>RunComplete

\* C3 witness: a complete run with two downloads.
C3_Witness ==
    /\ RunComplete
    /\ Len(dl) = 2

\* The seed a URL names, and the configuration section of a seed.
ArgOf(url) == CHOOSE a \in Seeds : a.name = url

SectionOf(a) == a.host[Len(a.host) - 1]

\* processURL has returned.
ProcReturned(i) == ppc[i] \in {"return", "done"}

\* The page fetch of seed i succeeded: its GET was answered with status OK.
Fetched(i) ==
    /\ httpGets[i] = 1
    /\ pres[i].Err \notin {"failed to download", "download failed with status"}

\* C4: temp-file cleanup.  Once a processURL call has returned, the
\* temporary file it created does not exist under its temporary name.
C4_TempFileCleanup ==
    \A i \in DOMAIN args : ProcReturned(i) => i \notin tmpFiles

\* C5: non-empty prefix.  Every outcome without failure that main collects
\* carries a non-empty FinalPrefix.
C5_NonEmptyPrefix ==
    \A n \in DOMAIN processed :
        processed[n].Err = "nil" => processed[n].FinalPrefix # <<>>

\* The sanitized fallback prefixes <section>-<unix-timestamp> of a section.
FallbackPrefixes(sectionName) ==
    { cleanPrefix(<<sectionName, "-">> \o Itoa(t)) : t \in Times }

\* The note of a prefix pattern that did not match or had no capture group.
NoMatchNote == <<"Prefix regex did not match or had no capture group.">>

\* C6: prefix fallback.  An outcome without failure whose prefix pattern did
\* not match the content (or had no capture group) carries the sanitized
\* fallback prefix of its section.
C6_PrefixFallback ==
    \A n \in DOMAIN processed :
        /\ processed[n].Err = "nil"
        /\ NoMatchNote \in Range(processed[n].OutputMessages)
        => processed[n].FinalPrefix \in FallbackPrefixes(SectionOf(ArgOf(processed[n].URL)))

\* The seeds of the run that url.Parse rejects.
Unparsable == { i \in DOMAIN args : ~args[i].parses }

\* C7: exit indicator.  When the process has ended a run with an unparsable
\* seed, there is one failure outcome per such seed, no download was
\* launched for any of them, and the exit status is not zero.
C7_ExitIndicator ==
    mainpc = "exited" /\ Unparsable # {} =>
        /\ \A i \in Unparsable :
              /\ Cardinality({ n \in DOMAIN processed : processed[n].URL = args[i].name })
                   = Cardinality({ m \in DOMAIN args : args[m].name = args[i].name })
              /\ \A n \in DOMAIN processed :
                    processed[n].URL = args[i].name =>
                        /\ processed[n].Err # "nil"
                        /\ \A d \in DOMAIN dl : dl[d].owner # n
        /\ exitCode # 0

\* main has collected the outcomes of phase 1.
Collected == mainpc \in {"gate", "spawn", "recv"} \/ Returned0

\* C8: exactly one outcome per seed.  The outcomes sent so far are as many
\* as the processURL calls that are past their send, and once main has
\* collected them the list holds, for every seed URL, as many outcomes with
\* that URL as the command line names it.
C8_OneOutcomePerSeed ==
    /\ Len(parseResults) + Len(processed)
         = Cardinality({ i \in DOMAIN args : ProcReturned(i) })
    /\ Collected =>
          /\ Len(processed) = Len(args)
          /\ \A i \in DOMAIN args :
                Cardinality({ n \in DOMAIN processed : processed[n].URL = args[i].name })
                  = Cardinality({ m \in DOMAIN args : args[m].name = args[i].name })

\* C8 witness: main has collected two outcomes that arrived in the order
\* opposite to the command line's.
C8_Witness ==
    /\ Collected
    /\ Len(args) = 2
    /\ args[1].name # args[2].name
    /\ processed[1].URL = args[2].name
    /\ processed[2].URL = args[1].name

\* The number of lines of a kind in a stream.
RECURSIVE CountLines(_, _)
CountLines(lines, stream) ==
    IF lines = {} THEN 0
    ELSE LET l == CHOOSE x \in lines : TRUE
         IN  CopiesIn(l, stream) + CountLines(lines \ {l}, stream)

LinesOfKind(stream, kind) ==
    CountLines({ l \in BagToSet(stream) : l.kind = kind }, stream)

\* The lines that report a download: success lines and error lines.
DownloadReports ==
    LinesOfKind(stdout, "downloaded") + LinesOfKind(stderr, "Error downloading")

\* C9: one report line per download.  Main has printed one line for each
\* outcome it received, a downloadURL goroutine delivers once, no download is
\* reported more often than it was launched, and when main returns every
\* launched download has been reported.
C9_OneReportPerDownload ==
    /\ DownloadReports = received
    /\ received = Cardinality({ d \in DOMAIN dl : Delivered(d) })
    /\ \A d \in DOMAIN dl :
          ReportCount(dl[d].url, dl[d].filepath) <= LaunchCount(dl[d].url, dl[d].filepath)
    /\ Returned0 =>
          /\ DownloadReports = Len(dl)
          /\ Len(dl) = totalDownloads
          /\ \A d \in DOMAIN dl :
                ReportCount(dl[d].url, dl[d].filepath) = LaunchCount(dl[d].url, dl[d].filepath)

\* C9 witness: main has returned with one success line and one error line
\* for two downloads.
C9_Witness ==
    /\ Returned0
    /\ Len(dl) = 2
    /\ LinesOfKind(stdout, "downloaded") = 1
    /\ LinesOfKind(stderr, "Error downloading") = 1

\* The snapshot names <section>-<nanoseconds>.html of a seed, and those on
\* disk.
SnapshotNames(i) == { SnapshotName(SectionOf(args[i]), t) : t \in Times }

SnapshotsOf(i) == snapshots \cap SnapshotNames(i)

\* The page of seed i was fetched and read: the fetch succeeded, and its body
\* was written to the temporary file and read back.
PageRead(i) ==
    /\ Fetched(i)
    /\ pres[i].Err \notin {"failed to create temp file", "failed to write to temp file",
                           "failed to read temp file"}

\* C10 as claimed: after a successful fetch, a returned processURL has left
\* exactly one snapshot of its seed if the flag is set, on every later path
\* (a prefix-pattern failure included), and none if it is unset.
C10_SnapshotOnEveryPath ==
    \A i \in DOMAIN args :
        ProcReturned(i) /\ PageRead(i) =>
            IF keepTemporary THEN Cardinality(SnapshotsOf(i)) = 1 ELSE SnapshotsOf(i) = {}

\* The call for seed i renamed its temporary file: the flag is set, the
\* fetch succeeded, no later step failed and os.Rename succeeded.
Retained(i) ==
    /\ keepTemporary
    /\ ppc[i] \in {"send", "return", "done"}
    /\ Fetched(i)
    /\ pres[i].Err = "nil"
    /\ <<"Warning: Failed to keep temporary file">> \notin Range(pres[i].OutputMessages)

\* C10 amended: a call that reached the rename and whose rename succeeded
\* has left a snapshot named after its section; there is no other snapshot
\* on disk, so none with the flag unset and none for a call that failed after
\* its fetch or whose rename failed; and there are no more snapshots than
\* such calls.
C10_SnapshotRetention ==
    /\ \A i \in DOMAIN args : Retained(i) => SnapshotsOf(i) # {}
    /\ \A n \in snapshots : \E i \in DOMAIN args : Retained(i) /\ n \in SnapshotNames(i)
    /\ Cardinality(snapshots) <= Cardinality({ i \in DOMAIN args : Retained(i) })

\* C10 witness: with the flag set, one call has kept its snapshot and
\* another, whose prefix pattern is invalid, has returned without one.
C10_Witness ==
    /\ keepTemporary
    /\ Len(args) = 2
    /\ \E i, m \in DOMAIN args :
          /\ ProcReturned(i) /\ Retained(i) /\ Cardinality(SnapshotsOf(i)) = 1
          /\ ProcReturned(m) /\ Fetched(m) /\ pres[m].Err = "invalid prefix regex"
          /\ SnapshotsOf(m) = {}

\* processURL for seed i is past its body, and downloadURL d holds its
\* outcome.
ProcRan(i) == ppc[i] \in {"send", "return", "done"}

Holding(d) == dl[d].pc = "send"

\* The statuses of the class 2xx.
Success2xx == { n \in 200..299 : TRUE }

OwnerPrefix(d) == processed[dl[d].owner].FinalPrefix

Extension(url) == IF Ext(url) = <<>> THEN <<".", "unknown">> ELSE Ext(url)

\* A position below 1000 in decimal: two digits below 100, three from 100 on.
IndexText(pos) ==
    IF pos < 100
    THEN <<Digit(pos \div 10), Digit(pos % 10)>>
    ELSE <<Digit(pos \div 100), Digit((pos \div 10) % 10), Digit(pos % 10)>>

\* C12 as claimed: the target path of every launched download is the
\* owner's final prefix, a dash, the position of the asset in the owner's
\* list as exactly two digits, and the extension, whatever the length of the
\* list.
C12_TwoDigitsAnyLength ==
    \A d \in DOMAIN dl :
        \E a, b \in 0..9 :
            /\ 10 * a + b = dl[d].pos
            /\ dl[d].filepath =
                 OwnerPrefix(d) \o <<"-", Digit(a), Digit(b)>> \o Extension(dl[d].url)

\* C12 amended: the launched downloads of an outcome are its assets, in
\* order; the target path of each is the owner's final prefix, a dash, the
\* 1-based position of the asset in decimal, padded with a zero to two
\* digits (and longer from position 100 on), and the URL's extension or
\* ".unknown".
C12_TargetPath ==
    \A d \in DOMAIN dl :
        /\ dl[d].pos \in DOMAIN processed[dl[d].owner].FoundURLs
        /\ dl[d].url = processed[dl[d].owner].FoundURLs[dl[d].pos]
        /\ dl[d].filepath =
             OwnerPrefix(d) \o <<"-">> \o IndexText(dl[d].pos) \o Extension(dl[d].url)

\* C12 witness: the downloads of positions 9 (a URL with an extension) and
\* 100 (a URL without one) have been launched.
C12_Witness ==
    \E d, c \in DOMAIN dl :
        /\ dl[d].pos = 9 /\ Ext(dl[d].url) # <<>>
        /\ dl[c].pos = 100 /\ Ext(dl[c].url) = <<>>
        /\ Len(dl[c].filepath) = Len(OwnerPrefix(c)) + 6

\* main is past the gate for outcome n of processed.
GatePassed(n) ==
    \/ mainpc \in {"gate", "spawn"} /\ k > n
    \/ mainpc = "recv"
    \/ Returned0

\* The lines on the error stream that report a failed outcome for url, and
\* the failed outcomes for url main is past the gate for.
FailureLines(url) == CopiesIn(Line("Error processing this URL", url, <<>>), stderr)

FailuresPassed(url) ==
    Cardinality({ n \in DOMAIN processed :
                    GatePassed(n) /\ processed[n].URL = url /\ processed[n].Err # "nil" })

\* The notes processURL records before its first step that can fail after
\* the section is known.
EarlyNotes == { <<"Processing section", sec>> : sec \in DOMAIN cfg }
                 \cup { <<"Processing section", "none">>, <<"Processing section", "localhost">> }

\* C13: download gate and short-circuit.  No download is launched for an
\* outcome that carries a failure or no asset URL; every failed outcome main
\* is past has its line on the error stream; and a processURL that failed
\* ran no later step: its outcome carries no asset URL and no note of a
\* later step.
C13_DownloadGate ==
    /\ \A n \in DOMAIN processed :
          processed[n].Err # "nil" \/ processed[n].FoundURLs = <<>> =>
              \A d \in DOMAIN dl : dl[d].owner # n
    /\ \A n \in DOMAIN processed : FailureLines(processed[n].URL) = FailuresPassed(processed[n].URL)
    /\ \A i \in DOMAIN args :
          ProcRan(i) /\ pres[i].Err # "nil" =>
              /\ pres[i].FoundURLs = <<>>
              /\ Range(pres[i].OutputMessages) \subseteq EarlyNotes

\* C13 witness: main has returned from a run of two seeds; the first outcome
\* failed on its prefix pattern after a page with asset URLs was read, was
\* reported and had no download launched; the second had its downloads.
C13_Witness ==
    /\ Returned0
    /\ Len(processed) = 2
    /\ processed[1].Err = "invalid prefix regex"
    /\ \E i \in DOMAIN args :
          /\ args[i].name = processed[1].URL
          /\ pres[i].Err # "nil"
          /\ \E n \in DOMAIN content[i] : content[i][n].kind = "img"
    /\ FailureLines(processed[1].URL) = 1
    /\ processed[2].Err = "nil"
    /\ \A d \in DOMAIN dl : dl[d].owner = 2
    /\ Len(dl) = Len(processed[2].FoundURLs)
    /\ Len(dl) > 0

\* The seeds whose hostname has fewer than two labels separated by dots.
ShortHost == { i \in DOMAIN args : args[i].parses /\ Len(args[i].host) < 2 }

\* C14: short hostname.  A processURL whose seed has a hostname of fewer
\* than two labels ends in a failed outcome, which main collects as such, and
\* has issued no HTTP request; no download is launched for it.
C14_ShortHostname ==
    \A i \in ShortHost :
        /\ httpGets[i] = 0
        /\ httpStatus[i] = 0
        /\ ProcRan(i) => pres[i].Err # "nil"
        /\ \A n \in DOMAIN processed :
              processed[n].URL = args[i].name =>
                  /\ processed[n].Err # "nil"
                  /\ \A d \in DOMAIN dl : dl[d].owner # n

\* C14 witness: main has returned from the run on http://localhost/, whose
\* failed outcome was reported.
C14_Witness ==
    /\ Returned0
    /\ ShortHost = {1}
    /\ args[1].host = <<"localhost">>
    /\ Len(processed) = 1
    /\ processed[1].Err = "hostname is not a valid domain"
    /\ FailureLines(args[1].name) = 1
    /\ httpGets[1] = 0

\* C15: the sanitizer is idempotent.  For every string, cleanPrefix applied
\* to the result of cleanPrefix gives that result again.
C15_Idempotent ==
    Len(processed) = 2 => processed[2].FinalPrefix = processed[1].FinalPrefix

\* processURL for seed i ran its extraction loop: the page was read and the
\* outcome carries no failure.
Extracted(i) == ProcRan(i) /\ PageRead(i) /\ pres[i].Err = "nil"

\* The keys of a section, by position, whose name starts with "re".
ExtractionKeys(section) ==
    { q \in DOMAIN section : HasPrefix(section[q].name, <<"r", "e">>) }

\* The positions in a page that the pattern of a key matches (none if the
\* pattern does not compile), and the text of the m-th of them.
MatchPositions(key, page) ==
    IF Compile(key.value).valid
    THEN { n \in DOMAIN page : page[n].kind = Compile(key.value).kind }
    ELSE {}

NthMatch(key, page, m) ==
    page[CHOOSE n \in MatchPositions(key, page) :
            Cardinality({ x \in MatchPositions(key, page) : x <= n }) = m].val

\* K(q): the number of matches of key q, and the number of those that carry
\* a first capture group.
MatchCount(section, q, page) ==
    IF q \in ExtractionKeys(section)
    THEN Cardinality(MatchPositions(section[q], page))
    ELSE 0

GroupCount(section, q, page) ==
    IF Compile(section[q].value).groups >= 1 THEN MatchCount(section, q, page) ELSE 0

\* The sum of the counts of the keys before position q.
RECURSIVE MatchesBefore(_, _, _)
MatchesBefore(section, q, page) ==
    IF q <= 1 THEN 0
    ELSE MatchCount(section, q - 1, page) + MatchesBefore(section, q - 1, page)

RECURSIVE GroupsBefore(_, _, _)
GroupsBefore(section, q, page) ==
    IF q <= 1 THEN 0
    ELSE GroupCount(section, q - 1, page) + GroupsBefore(section, q - 1, page)

\* C16 as claimed: after the extraction loop FoundURLs holds as many URLs as
\* the extraction keys have matches together, and the URLs of one key stand
\* in it in match order.
C16_CountOfAllMatches ==
    \A i \in DOMAIN args :
        Extracted(i) =>
            LET section == cfg[SectionOf(args[i])]
                page == content[i]
            IN  /\ Len(pres[i].FoundURLs) = MatchesBefore(section, Len(section) + 1, page)
                /\ \A q \in ExtractionKeys(section) :
                      \A m \in 1..MatchCount(section, q, page) :
                          pres[i].FoundURLs[MatchesBefore(section, q, page) + m]
                            = NthMatch(section[q], page, m)

\* C16 amended: FoundURLs holds as many URLs as the extraction keys whose
\* pattern compiles and has a capture group have matches together (a key
\* whose pattern is invalid or has no capture group adds none), and the URLs
\* of one key stand in it in match order, after those of the keys before it.
C16_CountAndOrder ==
    \A i \in DOMAIN args :
        Extracted(i) =>
            LET section == cfg[SectionOf(args[i])]
                page == content[i]
            IN  /\ Len(pres[i].FoundURLs) = GroupsBefore(section, Len(section) + 1, page)
                /\ \A q \in ExtractionKeys(section) :
                      \A m \in 1..GroupCount(section, q, page) :
                          pres[i].FoundURLs[GroupsBefore(section, q, page) + m]
                            = NthMatch(section[q], page, m)

\* C16 witness: the extraction loop has run over a page on which one key
\* matches once and another twice, with an invalid key between them.
C16_Witness ==
    \E i \in DOMAIN args :
        /\ Extracted(i)
        /\ content[i] = PageLinks
        /\ Len(pres[i].FoundURLs) = 3
        /\ \E q, r \in ExtractionKeys(cfg[SectionOf(args[i])]) :
              /\ GroupCount(cfg[SectionOf(args[i])], q, content[i]) = 1
              /\ GroupCount(cfg[SectionOf(args[i])], r, content[i]) = 2

\* The section of a seed has a prefix key whose pattern does not compile;
\* the extraction keys of a section whose pattern does not compile.
InvalidPrefix(section) ==
    HasKey(section, prefixKey) /\ ~Compile(KeyString(section, prefixKey)).valid

InvalidKeys(section) ==
    { q \in ExtractionKeys(section) : ~Compile(section[q].value).valid }

\* The warning processURL records for an invalid extraction key.
InvalidKeyWarning(key) == <<"Warning: Invalid regex for key">> \o key.name

\* C17: pattern error severity.  Once processURL has read its page, its
\* outcome is a failure if the prefix pattern of its section is invalid;
\* otherwise it is no failure, whatever extraction patterns are invalid: each
\* invalid key has its warning among the messages, and every other key's
\* URLs are in FoundURLs.
C17_PatternSeverity ==
    \A i \in DOMAIN args :
        ProcRan(i) /\ PageRead(i) =>
            LET section == cfg[SectionOf(args[i])]
                page == content[i]
            IN  IF InvalidPrefix(section)
                THEN pres[i].Err = "invalid prefix regex"
                ELSE /\ pres[i].Err = "nil"
                     /\ \A q \in InvalidKeys(section) :
                           InvalidKeyWarning(section[q]) \in Range(pres[i].OutputMessages)
                     /\ Len(pres[i].FoundURLs) = GroupsBefore(section, Len(section) + 1, page)
                     /\ \A q \in ExtractionKeys(section) \ InvalidKeys(section) :
                           \A m \in 1..GroupCount(section, q, page) :
                               NthMatch(section[q], page, m) \in Range(pres[i].FoundURLs)

\* C17 witness: in one run a processURL has collected the URLs of its valid
\* keys past an invalid extraction key, with the warning, and another has
\* failed on its invalid prefix pattern.
C17_Witness ==
    \E i, m \in DOMAIN args :
        /\ ProcRan(i) /\ PageRead(i)
        /\ InvalidKeys(cfg[SectionOf(args[i])]) # {}
        /\ pres[i].Err = "nil"
        /\ pres[i].FoundURLs # <<>>
        /\ ProcRan(m) /\ PageRead(m)
        /\ InvalidPrefix(cfg[SectionOf(args[m])])
        /\ pres[m].Err = "invalid prefix regex"

\* C18: no shared target file.  No two downloadURL goroutines of a run are
\* launched with the same target path, whichever seeds they belong to.
C18_NoSharedTarget ==
    \A d, c \in DOMAIN dl : d # c => dl[d].filepath # dl[c].filepath

\* A goroutine has its send behind it.
ProcSent(i) == ppc[i] \in {"return", "done"}

\* C19: channel safety.  No goroutine has sent on a closed channel;
\* parseResults is closed only when every processURL has sent, and
\* downloadResults only when every downloadURL launched has sent and main
\* has received it; parseResults never holds more than len(args) outcomes,
\* and a processURL at its send finds room in it.
C19_ChannelSafety ==
    /\ ~panicked
    /\ parseClosed => \A i \in DOMAIN args : ProcSent(i)
    /\ downloadClosed =>
          /\ Len(dl) = totalDownloads
          /\ \A d \in DOMAIN dl : Delivered(d)
    /\ Len(parseResults) <= Len(args)
    /\ \A i \in DOMAIN args :
          ppc[i] = "send" => ~parseClosed /\ Len(parseResults) < Len(args)

\* C19 witness: both channels are closed in a run of two seeds with two
\* downloads.
C19_Witness ==
    /\ parseClosed
    /\ downloadClosed
    /\ Len(args) = 2
    /\ Len(dl) = 2
    /\ received = 2

\* The GET of downloadURL d failed with a transport error or was rejected
\* for its status.
Rejected(d) == dl[d].res.Err \in {"get failed", "bad status"}

\* C20: frame on failed download.  A step in which a downloadURL runs to its
\* send with a failed or rejected GET leaves the files on disk as they are,
\* and that call has neither made nor truncated its target file; the files
\* on disk change only by a downloadURL whose response was accepted making
\* its own target file.
C20_FrameOnFailedDownload ==
    [][ /\ \A d \in DOMAIN dl :
              dl[d].pc = "run" /\ dl'[d].pc = "send" /\ Rejected(d)' =>
                  /\ files' = files
                  /\ ~dl'[d].created
        /\ \A d \in DOMAIN dl :
              dl'[d].created /\ ~dl[d].created =>
                  /\ dl[d].pc = "run"
                  /\ dl'[d].status = StatusOK
                  /\ ~Rejected(d)'
                  /\ files' = files \cup {dl[d].filepath}
        /\ files' # files => \E d \in DOMAIN dl : dl'[d].created /\ ~dl[d].created
      ]_vars

\* C20 witness: one downloadURL holds the outcome of a GET rejected for its
\* status, and its target file is not on disk, while another has made its
\* target file after an accepted response.
C20_Witness ==
    \E d, c \in DOMAIN dl :
        /\ Holding(d)
        /\ dl[d].res.Err = "bad status"
        /\ dl[d].status = 404
        /\ ~dl[d].created
        /\ dl[d].filepath \notin files
        /\ dl[c].created
        /\ dl[c].filepath \in files

====
